---- MODULE Spec2Model ----
(***************************************************************************)
(* A model of two pieces of the Streamlit front end:                       *)
(*                                                                         *)
(*   - AppSkeleton (src/unnamed/part_000): a React function component      *)
(*     with one state hook (visible) and one mount effect that starts a    *)
(*     one-shot timer of SHOW_DELAY_MS and clears it on unmount;           *)
(*   - three of the Sidebar style rules (Sidebar/styled-components.ts):    *)
(*     StyledSidebar, StyledSidebarNavItems and                            *)
(*     StyledSidebarNavSeparatorContainer, functions from (props, theme)   *)
(*     -- and, for StyledSidebar, window.innerWidth -- to a style object.  *)
(*                                                                         *)
(* Spec and LiveSpec drive the skeleton; SidebarSpec drives the style      *)
(* rules.                                                                  *)
(***************************************************************************)
EXTENDS Integers, FiniteSets, Sequences, TLC

VARIABLES
    \* ---- AppSkeleton ----
    mounted,      \* an AppSkeleton instance is in the tree
    inst,         \* number of the instance mounted last (0: none yet)
    visible,      \* the useState(false) hook of the mounted instance
    element,      \* the element prop of the mounted instance (its height)
    output,       \* what the last render of the instance returned
    rerendered,   \* RawAppSkeleton ran again after its first render
    elapsed,      \* ms since the instance was mounted (its first commit)
    effectPending,  \* the mount effect is scheduled and has not run yet
    cleanupPending, \* the effect's cleanup is scheduled and has not run yet
    effectAt,     \* the value of elapsed when the effect ran
    started,      \* setTimeout calls made by the instance
    timer,        \* the handle held by the effect's closure (const timer)
    timers,       \* the window's pending timers: [id, owner, remaining]
    timerSeq,     \* the last timer handle the window gave out
    cleared,      \* handles that clearTimeout cancelled while pending
    lateWrite,    \* setVisible was called for an instance no longer mounted
    \* ---- Sidebar ----
    props,        \* the props of the last render of the sidebar
    theme,        \* the theme of the last render
    innerWidth,   \* window.innerWidth now
    evalWidth,    \* window.innerWidth as read by the last render
    sidebarStyle, \* StyledSidebar's style object from the last render
    navItemsStyle,\* StyledSidebarNavItems' style object
    separatorStyle \* StyledSidebarNavSeparatorContainer's style object

skeletonVars == <<mounted, inst, visible, element, output, rerendered, elapsed,
                  effectPending, cleanupPending, effectAt,
                  started, timer, timers, timerSeq, cleared, lateWrite>>
sidebarVars == <<props, theme, innerWidth, evalWidth, sidebarStyle,
                 navItemsStyle, separatorStyle>>
vars == <<skeletonVars, sidebarVars>>

Min(a, b) == IF a <= b THEN a ELSE b
Max(a, b) == IF a >= b THEN a ELSE b

\* JavaScript's null (a style entry that is left out).
null == <<>>

(***************************************************************************)
(* Bounds of the model.                                                    *)
(***************************************************************************)
MaxInstances == 2     \* AppSkeleton instances mounted in one behaviour
TickMs == 250         \* the clock advances in steps of this many ms
MaxElapsed == 1000    \* an instance's age is followed up to this many ms
MaxTimers == 4        \* timer handles the window gives out in one behaviour
Heights == {100, 200} \* values of element.height

\* Values of window.innerWidth, in px.
Widths == {0, 1, 5, 200, 243, 245, 271, 272, 280, 611, 612, 1000}
\* Values of the sidebarWidth prop (a string).
SidebarWidths == {"256", "400"}
\* Two themes, with the entries the modelled rules read.
LightTheme ==
    [colors |-> [bgColor |-> "#f0f2f6", fadedText60 |-> "rgba(49,51,63,0.6)",
                 fadedText10 |-> "rgba(49,51,63,0.1)"],
     zIndices |-> [header |-> 999990],
     breakpoints |-> [md |-> "768px"],
     spacing |-> [sm |-> "0.5rem", lg |-> "1rem"]]
DarkTheme ==
    [colors |-> [bgColor |-> "#262730", fadedText60 |-> "rgba(250,250,250,0.6)",
                 fadedText10 |-> "rgba(250,250,250,0.1)"],
     zIndices |-> [header |-> 100],
     breakpoints |-> [md |-> "48rem"],
     spacing |-> [sm |-> "8px", lg |-> "16px"]]
Themes == {LightTheme, DarkTheme}

(***************************************************************************)
(* AppSkeleton                                                             *)
(***************************************************************************)
SHOW_DELAY_MS == 500

\* useState(false): the initial value of visible.
InitialVisibleTrue == TRUE
InitialVisible == FALSE

\* What RawAppSkeleton returns: the empty fragment while not visible, the
\* placeholder afterwards.
Fragment == [type |-> "Fragment"]
Placeholder(e) ==
    [type |-> "StyledSkeleton",
     testid |-> "stAppSkeleton",
     title |-> "TitleSkeleton",
     lines |-> <<"98%", "100%", "96%", "65%">>,
     square |-> [width |-> "75%", height |-> ToString(e) \o "pt"]]

RenderInverted(v, e) == IF v THEN Fragment ELSE Placeholder(e)
Render(v, e) == IF ~v THEN Fragment ELSE Placeholder(e)

\* The dependency array [] of the effect: the effect is scheduled by the
\* first render only, and its cleanup by the unmount only.
UseEffectRunsEveryRender(isMount) == TRUE
UseEffectRuns(isMount) == isMount

\* The value the timer's callback passes to setVisible.
TimerCallbackFalse == FALSE
TimerCallback == TRUE

\* setTimeout(cb, SHOW_DELAY_MS): a new pending timer of the window.
SetTimeout(ts, id, owner) ==
    ts \cup {[id |-> id, owner |-> owner, remaining |-> SHOW_DELAY_MS]}

\* clearTimeout(id): the timer is no longer pending; a handle that is not
\* pending is ignored.
ClearTimeout(ts, id) == {t \in ts : t.id # id}

\* The handles that are pending.
Pending(ts) == {t.id : t \in ts}

SkeletonInit ==
    /\ mounted = FALSE
    /\ inst = 0
    /\ visible = FALSE
    /\ element = 0
    /\ output = [type |-> "none"]
    /\ rerendered = FALSE
    /\ elapsed = 0
    /\ effectPending = FALSE
    /\ cleanupPending = FALSE
    /\ effectAt = 0
    /\ started = 0
    /\ timer = 0
    /\ timers = {}
    /\ timerSeq = 0
    /\ cleared = {}
    /\ lateWrite = FALSE

(***************************************************************************)
(* useEffect hands React the effect body (setTimeout) and, through it, the *)
(* cleanup (clearTimeout).  React runs them as passive effects after the   *)
(* commit, in a later task of the event loop, and in any case before it    *)
(* starts another render or commit.  The state after the scheduled one has *)
(* run (at most one of the two is ever scheduled):                         *)
(***************************************************************************)
FlushedTimers ==
    IF effectPending THEN SetTimeout(timers, timerSeq + 1, inst)
    ELSE IF cleanupPending THEN ClearTimeout(timers, timer)
    ELSE timers
FlushedTimerSeq == IF effectPending THEN timerSeq + 1 ELSE timerSeq
FlushedTimer == IF effectPending THEN timerSeq + 1 ELSE timer
FlushedStarted == IF effectPending THEN started + 1 ELSE started
FlushedEffectAt == IF effectPending THEN elapsed ELSE effectAt
FlushedCleared ==
    IF cleanupPending THEN cleared \cup ({timer} \cap Pending(timers))
    ELSE cleared

\* The parent renders <AppSkeleton element=e/> for the first time: the state
\* hook is initialised, the component renders and is committed, the effect is
\* scheduled.  A cleanup still scheduled for the previous instance runs first.
Mount ==
    /\ ~mounted
    /\ inst < MaxInstances
    /\ \E e \in Heights :
        /\ mounted' = TRUE
        /\ inst' = inst + 1
        /\ visible' = InitialVisible
        /\ element' = e
        /\ output' = Render(InitialVisible, e)
    /\ rerendered' = FALSE
    /\ elapsed' = 0
    /\ timers' = FlushedTimers
    /\ cleared' = FlushedCleared
    /\ cleanupPending' = FALSE
    /\ effectPending' = UseEffectRuns(TRUE)
    /\ effectAt' = 0
    /\ started' = 0
    /\ timer' = 0
    /\ UNCHANGED <<timerSeq, lateWrite>>
    /\ UNCHANGED sidebarVars

\* React runs the scheduled effect body: const timer = setTimeout(...).
RunEffect ==
    /\ effectPending
    /\ timers' = FlushedTimers
    /\ timerSeq' = FlushedTimerSeq
    /\ timer' = FlushedTimer
    /\ started' = FlushedStarted
    /\ effectAt' = FlushedEffectAt
    /\ effectPending' = FALSE
    /\ UNCHANGED <<mounted, inst, visible, element, output, rerendered, elapsed,
                   cleanupPending, cleared, lateWrite>>
    /\ UNCHANGED sidebarVars

\* React runs the scheduled cleanup: clearTimeout(timer).
RunCleanup ==
    /\ cleanupPending
    /\ timers' = FlushedTimers
    /\ cleared' = FlushedCleared
    /\ cleanupPending' = FALSE
    /\ UNCHANGED <<mounted, inst, visible, element, output, rerendered, elapsed,
                   effectPending, effectAt, started, timer, timerSeq, lateWrite>>
    /\ UNCHANGED sidebarVars

\* The parent renders again and passes the element object it passed before:
\* memo() finds the props equal (Object.is) and skips RawAppSkeleton.  React
\* runs a scheduled effect before the render.
ParentRenderSameElement ==
    /\ mounted
    /\ timers' = FlushedTimers
    /\ timerSeq' = FlushedTimerSeq
    /\ timer' = FlushedTimer
    /\ started' = FlushedStarted
    /\ effectAt' = FlushedEffectAt
    /\ effectPending' = FALSE
    /\ UNCHANGED <<mounted, inst, visible, element, output, rerendered, elapsed,
                   cleanupPending, cleared, lateWrite>>
    /\ UNCHANGED sidebarVars

\* The parent renders again and passes another element object, of the same
\* or of another height: RawAppSkeleton runs with the state it has.  React
\* runs a scheduled effect before the render; after it, the effect (cleanup,
\* then body) runs again only if its dependencies say so.
ParentRenderNewElement ==
    /\ mounted
    /\ \E e \in Heights :
        /\ element' = e
        /\ output' = Render(visible, e)
    /\ rerendered' = TRUE
    /\ effectPending' = FALSE
    /\ effectAt' = FlushedEffectAt
    /\ IF UseEffectRuns(FALSE) /\ FlushedTimerSeq < MaxTimers
         THEN /\ timers' = SetTimeout(ClearTimeout(FlushedTimers, FlushedTimer),
                                      FlushedTimerSeq + 1, inst)
              /\ timerSeq' = FlushedTimerSeq + 1
              /\ timer' = FlushedTimerSeq + 1
              /\ started' = FlushedStarted + 1
              /\ cleared' = cleared \cup ({FlushedTimer} \cap Pending(FlushedTimers))
         ELSE /\ timers' = FlushedTimers
              /\ timerSeq' = FlushedTimerSeq
              /\ timer' = FlushedTimer
              /\ started' = FlushedStarted
              /\ UNCHANGED cleared
    /\ UNCHANGED <<mounted, inst, visible, elapsed, cleanupPending, lateWrite>>
    /\ UNCHANGED sidebarVars

\* Time passes: every pending timer gets closer to firing.
Tick ==
    /\ \/ mounted /\ elapsed < MaxElapsed
       \/ \E t \in timers : t.remaining > 0
    /\ timers' = {[t EXCEPT !.remaining = Max(0, @ - TickMs)] : t \in timers}
    /\ elapsed' = IF mounted THEN Min(elapsed + TickMs, MaxElapsed) ELSE elapsed
    /\ UNCHANGED <<mounted, inst, visible, element, output, rerendered,
                   effectPending, cleanupPending, effectAt,
                   started, timer, timerSeq, cleared, lateWrite>>
    /\ UNCHANGED sidebarVars

\* A timer whose delay has passed is served: its callback calls setVisible,
\* and React renders the component again with the new state.  A callback
\* whose instance has left the tree calls setVisible for an unmounted
\* component, which changes no state.
TimerFire ==
    /\ \E t \in timers :
        /\ t.remaining = 0
        /\ timers' = timers \ {t}
        /\ IF mounted /\ t.owner = inst
             THEN /\ visible' = TimerCallback
                  /\ output' = Render(TimerCallback, element)
                  /\ UNCHANGED lateWrite
             ELSE /\ lateWrite' = TRUE
                  /\ UNCHANGED <<visible, output>>
    /\ UNCHANGED <<mounted, inst, element, rerendered, elapsed,
                   effectPending, cleanupPending, effectAt, started,
                   timer, timerSeq, cleared>>
    /\ UNCHANGED sidebarVars

\* The instance leaves the tree: React runs a scheduled effect first, commits
\* the removal, drops the instance's state and schedules the effect's cleanup.
Unmount ==
    /\ mounted
    /\ mounted' = FALSE
    /\ timers' = FlushedTimers
    /\ timerSeq' = FlushedTimerSeq
    /\ timer' = FlushedTimer
    /\ started' = FlushedStarted
    /\ effectAt' = FlushedEffectAt
    /\ effectPending' = FALSE
    /\ cleanupPending' = UseEffectRuns(TRUE)
    /\ visible' = FALSE
    /\ output' = [type |-> "none"]
    /\ UNCHANGED <<inst, element, rerendered, elapsed, cleared, lateWrite>>
    /\ UNCHANGED sidebarVars

(***************************************************************************)
(* Sidebar style rules                                                     *)
(***************************************************************************)
\* A number with one decimal, given in tenths: 2205 is 220.5.
Decimal(t) == [int |-> t \div 10, frac |-> t % 10]
Tenths(d) == 10 * d.int + d.frac

\* window.innerWidth * 0.9, as the exact decimal product.  The code computes
\* the product in doubles: for a width that is a multiple of 10 the double is
\* this whole number; for any other width it is within 1e-12 of this decimal
\* (218.70000000000002 for 243), so it compares with 550 and with every
\* whole number as the decimal does.
TimesPointNine(w) == Decimal(9 * w)

\* Math.min of a whole number and a decimal, as a decimal.
MinDecimal(n, d) == IF 10 * n <= Tenths(d) THEN Decimal(10 * n) ELSE d

\* const minWidth = isCollapsed ? 0 : Math.min(244, window.innerWidth)
SidebarMinWidth(isCollapsed, w) == IF isCollapsed THEN 0 ELSE Min(244, w)

\* const maxWidth = isCollapsed ? 0 : Math.min(550, window.innerWidth * 0.9)
SidebarMaxWidthOfWindow(isCollapsed, w) ==
    IF isCollapsed THEN Decimal(0) ELSE MinDecimal(550, Decimal(10 * w))
SidebarMaxWidth(isCollapsed, w) ==
    IF isCollapsed THEN Decimal(0) ELSE MinDecimal(550, TimesPointNine(w))

\* StyledSidebar: p the props, th the theme, w window.innerWidth as read.
StyledSidebar(p, th, w) ==
    [position |-> "relative",
     top |-> IF p.adjustTop THEN "2px" ELSE "0px",
     backgroundColor |-> th.colors.bgColor,
     zIndex |-> th.zIndices.header + 1,
     minWidth |-> SidebarMinWidth(p.isCollapsed, w),
     maxWidth |-> SidebarMaxWidth(p.isCollapsed, w),
     transform |-> IF p.isCollapsed
                     THEN "translateX(-" \o p.sidebarWidth \o "px)"
                     ELSE "none",
     transition |-> "transform 300ms, min-width 300ms, max-width 300ms"]
    @@ ("&:focus" :> [outline |-> "none"])
    @@ (("@media (max-width: " \o th.breakpoints.md \o ")") :>
          [boxShadow |-> "-2rem 0 2rem 2rem " \o
                         (IF p.isCollapsed THEN "transparent" ELSE "#00000029")])
    @@ ("@media print" :>
          [backgroundColor |-> "transparent",
           margin |-> "auto",
           boxShadow |-> "none",
           maxWidth |-> "none",
           minWidth |-> "100%",
           width |-> "100% !important",
           paddingTop |-> "1rem"])

\* const isExpandedMaxHeight = isExpanded ? "75vh" : "33vh"
\* const maxHeight = hasSidebarElements ? isExpandedMaxHeight : "100vh"
NavItemsMaxHeightSwapped(p) ==
    LET isExpandedMaxHeight == IF p.isExpanded THEN "33vh" ELSE "75vh"
    IN  IF p.hasSidebarElements THEN isExpandedMaxHeight ELSE "100vh"
NavItemsMaxHeight(p) ==
    LET isExpandedMaxHeight == IF p.isExpanded THEN "75vh" ELSE "33vh"
    IN  IF p.hasSidebarElements THEN isExpandedMaxHeight ELSE "100vh"

\* "&::before": the fade at the top of an overflowing list.
NavItemsBefore(p, th) ==
    IF p.isOverflowing
      THEN [content |-> "\" \"",
            backgroundImage |-> "linear-gradient(0deg, transparent, "
                                \o th.colors.bgColor \o ")",
            width |-> "100%",
            height |-> "2rem",
            position |-> "absolute",
            top |-> 0,
            left |-> 0,
            right |-> 0,
            pointerEvents |-> "none"]
      ELSE null

\* "&::after": the fade at the bottom of an overflowing list.
NavItemsAfterWhenExpanded(p, th) ==
    IF p.isExpanded
      THEN [content |-> "\" \"",
            backgroundImage |-> "linear-gradient(0deg, "
                                \o th.colors.bgColor \o ", transparent)",
            height |-> "2rem",
            position |-> "absolute",
            bottom |-> 0,
            left |-> 0,
            right |-> 0,
            pointerEvents |-> "none"]
      ELSE null
NavItemsAfter(p, th) ==
    IF p.isOverflowing
      THEN [content |-> "\" \"",
            backgroundImage |-> "linear-gradient(0deg, "
                                \o th.colors.bgColor \o ", transparent)",
            height |-> "2rem",
            position |-> "absolute",
            bottom |-> 0,
            left |-> 0,
            right |-> 0,
            pointerEvents |-> "none"]
      ELSE null

StyledSidebarNavItems(p, th) ==
    [maxHeight |-> NavItemsMaxHeight(p),
     listStyle |-> "none",
     overflow |-> <<"auto", "overlay">>,
     margin |-> 0,
     paddingTop |-> th.spacing.lg,
     paddingBottom |-> th.spacing.lg]
    @@ ("@media print" :> [paddingTop |-> th.spacing.sm])
    @@ ("&::before" :> NavItemsBefore(p, th))
    @@ ("&::after" :> NavItemsAfter(p, th))

StyledSidebarNavSeparatorContainer(p, th) ==
    [cursor |-> IF p.isExpanded \/ p.isOverflowing THEN "pointer" ELSE "default",
     position |-> "absolute",
     height |-> th.spacing.lg,
     left |-> 0,
     right |-> 0,
     bottom |-> 0,
     display |-> "flex",
     alignItems |-> "center",
     justifyContent |-> "center",
     color |-> th.colors.fadedText60,
     borderBottom |-> "1px solid " \o th.colors.fadedText10,
     transition |-> "color 500ms"]

\* The props of one render: StyledSidebarProps and StyledSidebarNavItemsProps
\* (StyledSidebarNavSeparatorContainerProps are two of the latter).
PropsSet ==
    [isCollapsed : BOOLEAN, adjustTop : BOOLEAN, sidebarWidth : SidebarWidths,
     isExpanded : BOOLEAN, isOverflowing : BOOLEAN,
     hasSidebarElements : BOOLEAN]

\* One render of the sidebar with props p and theme th, as far as these
\* three rules go: StyledSidebar, which reads window.innerWidth as it is now,
\* StyledSidebarNavItems and StyledSidebarNavSeparatorContainer.  The other
\* rules of the file are not part of this model.
RenderSidebar(p, th) ==
    /\ props' = p
    /\ theme' = th
    /\ evalWidth' = innerWidth
    /\ sidebarStyle' = StyledSidebar(p, th, innerWidth)
    /\ navItemsStyle' = StyledSidebarNavItems(p, th)
    /\ separatorStyle' = StyledSidebarNavSeparatorContainer(p, th)
    /\ UNCHANGED innerWidth
    /\ UNCHANGED skeletonVars

InitialProps ==
    [isCollapsed |-> FALSE, adjustTop |-> FALSE, sidebarWidth |-> "256",
     isExpanded |-> FALSE, isOverflowing |-> FALSE,
     hasSidebarElements |-> FALSE]

\* The first render, in a window 1000 px wide.
SidebarInit ==
    /\ props = InitialProps
    /\ theme = LightTheme
    /\ innerWidth = 1000
    /\ evalWidth = 1000
    /\ sidebarStyle = StyledSidebar(InitialProps, LightTheme, 1000)
    /\ navItemsStyle = StyledSidebarNavItems(InitialProps, LightTheme)
    /\ separatorStyle = StyledSidebarNavSeparatorContainer(InitialProps, LightTheme)

\* The browser window is resized.  Nothing in the rules listens: the styles
\* stay as the last render left them.
Resize ==
    /\ \E w \in Widths \ {innerWidth} : innerWidth' = w
    /\ UNCHANGED <<props, theme, evalWidth, sidebarStyle, navItemsStyle,
                   separatorStyle>>
    /\ UNCHANGED skeletonVars

\* Renders with one prop changed, with another theme, or with nothing changed.
SetIsCollapsed == RenderSidebar([props EXCEPT !.isCollapsed = ~@], theme)
SetAdjustTop == RenderSidebar([props EXCEPT !.adjustTop = ~@], theme)
SetSidebarWidth ==
    \E s \in SidebarWidths \ {props.sidebarWidth} :
        RenderSidebar([props EXCEPT !.sidebarWidth = s], theme)
SetIsExpanded == RenderSidebar([props EXCEPT !.isExpanded = ~@], theme)
SetIsOverflowing == RenderSidebar([props EXCEPT !.isOverflowing = ~@], theme)
SetHasSidebarElements ==
    RenderSidebar([props EXCEPT !.hasSidebarElements = ~@], theme)
SetTheme == \E th \in Themes \ {theme} : RenderSidebar(props, th)
Rerender == RenderSidebar(props, theme)

SidebarNext ==
    \/ Resize
    \/ SetIsCollapsed
    \/ SetAdjustTop
    \/ SetSidebarWidth
    \/ SetIsExpanded
    \/ SetIsOverflowing
    \/ SetHasSidebarElements
    \/ SetTheme
    \/ Rerender

Init == SkeletonInit /\ SidebarInit

Next ==
    \/ Mount
    \/ RunEffect
    \/ ParentRenderSameElement
    \/ ParentRenderNewElement
    \/ Tick
    \/ TimerFire
    \/ Unmount
    \/ RunCleanup

Spec == Init /\ [][Next]_vars

\* The sidebar alone: its renders and the window's resizes.
SidebarSpec == Init /\ [][SidebarNext]_vars

\* The browser's clock advances, a due timer is served, and React runs the
\* passive effects it has scheduled.
LiveSpec ==
    /\ Init /\ [][Next]_vars
    /\ WF_vars(Tick) /\ WF_vars(TimerFire)
    /\ WF_vars(RunEffect) /\ WF_vars(RunCleanup)

(***************************************************************************)
(* AppSkeleton: properties                                                 *)
(***************************************************************************)
\* The timer of the mounted instance has fired.
TimerFired == mounted /\ started > 0 /\ timer \notin Pending(timers)

\* C1: visible is false when an instance is mounted, and while the instance
\* stays mounted it never goes from true back to false (so it changes at most
\* once, from false to true), whatever step is taken.
C1_VisibleOnceNeverReverts ==
    [][ /\ (~mounted /\ mounted' => ~visible')
        /\ (mounted /\ mounted' /\ visible => visible') ]_vars

\* C1 witness: a second instance, re-rendered, whose flag has become true.
C1_Witness == mounted /\ inst = 2 /\ rerendered /\ visible

\* C2, as stated: no timer callback ever calls setVisible for an instance
\* that has been unmounted.
C2_NoUpdateAfterUnmount == ~lateWrite

\* C3: the last render of a mounted instance returned the empty fragment
\* whenever fewer than SHOW_DELAY_MS have passed since mount, and the
\* placeholder (for the current element) once the delay has passed and the
\* timer has fired.
C3_PlaceholderAfterDelay ==
    mounted =>
        /\ elapsed < SHOW_DELAY_MS => output = Fragment
        /\ (elapsed >= SHOW_DELAY_MS /\ TimerFired) =>
               /\ output = Placeholder(element)
               /\ output.testid = "stAppSkeleton"
        /\ ~TimerFired => output = Fragment

\* C3 witness: a re-render after the timer fired shows the placeholder.
C3_Witness ==
    /\ mounted /\ elapsed >= SHOW_DELAY_MS /\ TimerFired /\ rerendered
    /\ output = Placeholder(element)

\* C5: under LiveSpec, a mounted instance is eventually unmounted or its
\* flag becomes true and the placeholder is rendered.
C5_EventuallyShown ==
    [](mounted => <>(~mounted \/ (visible /\ output = Placeholder(element))))

\* C5 witness: an instance that was re-rendered while waiting and is shown.
C5_Witness ==
    /\ mounted /\ rerendered /\ visible /\ output = Placeholder(element)
    /\ elapsed = MaxElapsed

\* C10: a mounted instance calls setTimeout exactly once, in its mount effect
\* (the useEffect with dependencies [], which React runs once the first
\* render is committed): never before that effect has run, exactly once from
\* then on.  At most one timer is pending, it is the instance's, it stays
\* pending until it fires, and it is due SHOW_DELAY_MS after the mount effect
\* ran, whatever renders came later.  A re-render of the mounted instance
\* (no time passing, the flag unchanged, the mount effect already run) leaves
\* the pending timers, the handle and the number of setTimeout calls as they
\* were.
C10_OneTimerFromMountEffect ==
    /\ [](mounted =>
            /\ started = (IF effectPending THEN 0 ELSE 1)
            /\ Cardinality(timers) <= 1
            /\ effectPending => timers = {}
            /\ \A t \in timers :
                  /\ t.id = timer /\ t.owner = inst
                  /\ elapsed < MaxElapsed =>
                        t.remaining = Max(0, SHOW_DELAY_MS - (elapsed - effectAt))
            /\ (~visible /\ ~effectPending) => timer \in Pending(timers))
    /\ [][ (/\ mounted /\ mounted' /\ ~effectPending
            /\ elapsed' = elapsed /\ elapsed < MaxElapsed
            /\ visible' = visible) =>
               UNCHANGED <<timers, timer, timerSeq, started, cleared>> ]_vars

\* C10 witness: an instance whose effect ran some time after its mount,
\* re-rendered part-way through the delay, its timer still pending.
C10_Witness ==
    /\ mounted /\ rerendered /\ 0 < effectAt /\ effectAt < elapsed
    /\ elapsed < MaxElapsed
    /\ \E t \in timers : t.id = timer /\ 0 < t.remaining

(***************************************************************************)
(* Sidebar style rules: properties (checked under SidebarSpec)             *)
(***************************************************************************)
\* C4, as stated, for the rule the claim names: when StyledSidebar is
\* evaluated again with the same props and the same theme, it yields the same
\* style object, whatever the window's width at each of the two evaluations.
C4_PureInPropsAndTheme ==
    [][ (props' = props /\ theme' = theme) => sidebarStyle' = sidebarStyle ]_vars

\* C6: in the style StyledSidebar returned for window width w = evalWidth
\* and sidebarWidth s: collapsed, minWidth = maxWidth = 0 and transform =
\* translateX(-s px); otherwise transform = none, minWidth = min(244, w) and
\* maxWidth = min(550, 0.9 w).  top is 2px or 0px as adjustTop says, and a
\* render that changes adjustTop alone, at the same window width, changes
\* top alone.
C6_SidebarWidthsAndTransform ==
    /\ [](/\ sidebarStyle.top = (IF props.adjustTop THEN "2px" ELSE "0px")
          /\ props.isCollapsed =>
               /\ sidebarStyle.minWidth = 0
               /\ sidebarStyle.maxWidth = Decimal(0)
               /\ sidebarStyle.transform =
                    "translateX(-" \o props.sidebarWidth \o "px)"
          /\ ~props.isCollapsed =>
               /\ sidebarStyle.transform = "none"
               /\ sidebarStyle.minWidth <= 244
               /\ sidebarStyle.minWidth <= evalWidth
               /\ sidebarStyle.minWidth \in {244, evalWidth}
               /\ Tenths(sidebarStyle.maxWidth) <= 5500
               /\ Tenths(sidebarStyle.maxWidth) <= 9 * evalWidth
               /\ Tenths(sidebarStyle.maxWidth) \in {5500, 9 * evalWidth})
    /\ [][ (/\ props' = [props EXCEPT !.adjustTop = ~@]
            /\ theme' = theme
            /\ evalWidth' = evalWidth) =>
               /\ sidebarStyle'.top # sidebarStyle.top
               /\ sidebarStyle' = [sidebarStyle EXCEPT !.top = sidebarStyle'.top]
          ]_vars

\* C6 witness: an open sidebar, nudged by adjustTop, in a window narrower
\* than both limits.
C6_Witness ==
    /\ ~props.isCollapsed /\ props.adjustTop /\ evalWidth = 243
    /\ sidebarStyle.minWidth = 243
    /\ sidebarStyle.maxWidth = [int |-> 218, frac |-> 7]
    /\ sidebarStyle.top = "2px"

\* C7: StyledSidebarNavItems' maxHeight is 100vh without sidebar elements,
\* 75vh with sidebar elements when expanded, 33vh with them when not.
C7_NavItemsMaxHeight ==
    navItemsStyle.maxHeight =
        IF ~props.hasSidebarElements THEN "100vh"
        ELSE IF props.isExpanded THEN "75vh" ELSE "33vh"

\* C7 witness: sidebar elements, not expanded, overflowing: 33vh.
C7_Witness ==
    /\ props.hasSidebarElements /\ ~props.isExpanded /\ props.isOverflowing
    /\ navItemsStyle.maxHeight = "33vh"

\* C8: the ::before and ::after fades of StyledSidebarNavItems are both
\* there exactly when isOverflowing is true and both null otherwise; a render
\* that changes isOverflowing alone leaves maxHeight as it was, and a render
\* that changes isExpanded or hasSidebarElements alone leaves ::before and
\* ::after as they were.
C8_NavItemsFlagsIndependent ==
    /\ [](/\ (navItemsStyle["&::before"] # null) <=> props.isOverflowing
          /\ (navItemsStyle["&::after"] # null) <=> props.isOverflowing)
    /\ [][ /\ (props' = [props EXCEPT !.isOverflowing = ~@] /\ theme' = theme) =>
                navItemsStyle'.maxHeight = navItemsStyle.maxHeight
           /\ (/\ \/ props' = [props EXCEPT !.isExpanded = ~@]
                  \/ props' = [props EXCEPT !.hasSidebarElements = ~@]
               /\ theme' = theme) =>
                /\ navItemsStyle'["&::before"] = navItemsStyle["&::before"]
                /\ navItemsStyle'["&::after"] = navItemsStyle["&::after"]
          ]_vars

\* C8 witness: an overflowing, expanded list with sidebar elements, with
\* both fades.
C8_Witness ==
    /\ props.isOverflowing /\ props.isExpanded /\ props.hasSidebarElements
    /\ navItemsStyle["&::before"] # null /\ navItemsStyle["&::after"] # null
    /\ navItemsStyle.maxHeight = "75vh"

\* C9, as stated: the style StyledSidebar returned has minWidth <= maxWidth.
C9_MinWidthAtMostMaxWidth ==
    10 * sidebarStyle.minWidth <= Tenths(sidebarStyle.maxWidth)
====
